---- MODULE Spec2Model ----
(***************************************************************************)
(* Section-production engine of LongTextAgent.                             *)
(*                                                                         *)
(*   Writer.write_section        src/agents/writer.py          269-461     *)
(*   DramaEvaluator              src/agents/drama_evaluator.py  35-130     *)
(*   count_words                 src/utils/text_utils.py        24-43      *)
(*                                                                         *)
(* A text is a sequence of characters, each standing for its character     *)
(* class: "C" a CJK ideograph (U+4E00..U+9FFF), "a" any other non-blank    *)
(* character, " " and "\n" white space.  A judge reply is a sequence of    *)
(* lexical tokens (braces, fences, blanks, prose, object members, scalar   *)
(* JSON values) or the missing reply None.                                 *)
(***************************************************************************)
EXTENDS Integers, Sequences, FiniteSets, TLC

(***************************************************************************)
(* utils/text_utils.py                                                     *)
(***************************************************************************)
IsSpace(c) == c \in {" ", "\n"}

IsChinese(c) == c = "C"

\* what re.sub(r'[\u4e00-\u9fff]', ' ', text) leaves as part of a word
IsWordChar(c) == ~IsSpace(c) /\ ~IsChinese(c)

\* len(re.findall(r'[\u4e00-\u9fff]', text))
ChineseChars(text) == Cardinality({i \in 1..Len(text) : IsChinese(text[i])})

\* len(text_no_chinese.split()): one word per maximal run of word characters
EnglishWords(text) ==
    Cardinality({i \in 1..Len(text) :
                    /\ IsWordChar(text[i])
                    /\ (i = 1 \/ ~IsWordChar(text[i - 1]))})

count_words(text) == ChineseChars(text) + EnglishWords(text)

\* str.strip()
Strip(text) ==
    LET keep == {i \in 1..Len(text) : ~IsSpace(text[i])}
    IN  IF keep = {} THEN <<>>
        ELSE LET lo == CHOOSE i \in keep : \A j \in keep : i <= j
                 hi == CHOOSE i \in keep : \A j \in keep : j <= i
             IN  SubSeq(text, lo, hi)

(***************************************************************************)
(* Python values met in a judge reply.  t is the Python type ("nan": the    *)
(* float NaN, which json.loads reads from the literal NaN); n the number   *)
(* (bool: 0/1), s the string, d the items of a dict (<<key, number>>) or   *)
(* of a list (<<element, position>>).                                      *)
(***************************************************************************)
PyVal(t, n, s, d) == [t |-> t, n |-> n, s |-> s, d |-> d]

Num(n) == PyVal("num", n, "", {})

Str(s) == PyVal("str", 0, s, {})

PyNone == PyVal("none", 0, "", {})

PyTrue == PyVal("bool", 1, "", {})

PyNaN == PyVal("nan", 0, "", {})

Dict(d) == PyVal("dict", 0, "", d)

List(d) == PyVal("list", 0, "", d)

\* bool(v)
Truthy(v) ==
    CASE v.t = "num"  -> v.n # 0
      [] v.t = "bool" -> v.n # 0
      [] v.t = "str"  -> v.s # ""
      [] v.t = "none" -> FALSE
      [] v.t = "nan"  -> TRUE
      [] OTHER        -> v.d # {}

\* the decimal strings of the model and the number float() reads from each
NumericStrings == {<<"95", 95>>, <<"10", 10>>}

\* float(v): exc = "" and the float x (a number or NaN), or the exception raised
PyFloat(v) ==
    CASE v.t \in {"num", "bool"} -> [exc |-> "", x |-> Num(v.n)]
      [] v.t = "nan" -> [exc |-> "", x |-> PyNaN]
      [] v.t = "str" ->
            IF \E p \in NumericStrings : p[1] = v.s
            THEN [exc |-> "",
                  x |-> Num((CHOOSE p \in NumericStrings : p[1] = v.s)[2])]
            ELSE [exc |-> "ValueError", x |-> Num(0)]
      [] OTHER -> [exc |-> "TypeError", x |-> Num(0)]

\* a < b, a >= b on floats: every comparison with NaN is false
FloatLT(a, b) == a.t = "num" /\ b.t = "num" /\ a.n < b.n

FloatGE(a, b) == a.t = "num" /\ b.t = "num" /\ a.n >= b.n

(***************************************************************************)
(* Reply tokens                                                            *)
(***************************************************************************)
Tok(kind, k, v) == [kind |-> kind, k |-> k, v |-> v]

LBrace == Tok("lbrace", "", PyNone)

RBrace == Tok("rbrace", "", PyNone)

FenceJson == Tok("fencejson", "", PyNone)

Fence == Tok("fence", "", PyNone)

Blank == Tok("ws", "", PyNone)

Prose == Tok("txt", "", PyNone)

\* "key": value  inside an object
Member(k, v) == Tok("member", k, v)

\* a JSON value that is not an object: number, string, null, true, array
Scalar(v) == Tok("value", "", v)

\* LLMClient.generate returned message.content = None
NoneReply == <<Tok("None", "", PyNone)>>

StripToks(toks) ==
    LET keep == {i \in 1..Len(toks) : toks[i].kind # "ws"}
    IN  IF keep = {} THEN <<>>
        ELSE LET lo == CHOOSE i \in keep : \A j \in keep : i <= j
                 hi == CHOOSE i \in keep : \A j \in keep : j <= i
             IN  SubSeq(toks, lo, hi)

\* the dict json.loads builds from the members of an object: last key wins
MembersToDict(ms) ==
    LET keys == {ms[i].k : i \in 1..Len(ms)}
        last(k) == CHOOSE i \in 1..Len(ms) :
                      /\ ms[i].k = k
                      /\ \A j \in 1..Len(ms) : ms[j].k = k => j <= i
    IN  [k \in keys |-> ms[last(k)].v]

\* json.loads(text): exc = "" and the value (obj: it is an object, with items m),
\* or the exception raised.  White space around the value is accepted.
json_loads(toks) ==
    LET body   == StripToks(toks)
        inner  == SubSeq(body, 2, Len(body) - 1)
        fail(e) == [exc |-> e, obj |-> FALSE, m |-> <<>>, v |-> PyNone]
    IN  IF toks = NoneReply THEN fail("TypeError")
        ELSE IF Len(body) = 1 /\ body[1].kind = "value"
        THEN [exc |-> "", obj |-> FALSE, m |-> <<>>, v |-> body[1].v]
        ELSE IF /\ Len(body) >= 2
                /\ body[1] = LBrace
                /\ body[Len(body)] = RBrace
                /\ \A i \in 1..Len(inner) : inner[i].kind \in {"member", "ws"}
        THEN [exc |-> "", obj |-> TRUE,
              m |-> MembersToDict(SelectSeq(inner, LAMBDA t : t.kind = "member")),
              v |-> PyNone]
        ELSE fail("JSONDecodeError")

(***************************************************************************)
(* agents/drama_evaluator.py                                               *)
(***************************************************************************)
\* re.search(r'```json\s*(.*?)\s*```', response, re.DOTALL): group(1), the
\* text between the first ```json and the first ``` after it, blanks trimmed
FencedBlock(toks) ==
    LET opens == {i \in 1..Len(toks) :
                     /\ toks[i] = FenceJson
                     /\ \E j \in (i + 1)..Len(toks) : toks[j] \in {Fence, FenceJson}}
    IN  IF opens = {} THEN [found |-> FALSE, text |-> <<>>]
        ELSE LET i == CHOOSE x \in opens : \A y \in opens : x <= y
                 closes == {j \in (i + 1)..Len(toks) : toks[j] \in {Fence, FenceJson}}
                 j == CHOOSE x \in closes : \A y \in closes : x <= y
             IN  [found |-> TRUE, text |-> StripToks(SubSeq(toks, i + 1, j - 1))]

\* faulty variant of BraceSpan: the braces themselves are left out of the span
BraceInterior(toks) ==
    LET opens == {i \in 1..Len(toks) :
                     /\ toks[i] = LBrace
                     /\ \E j \in (i + 1)..Len(toks) : toks[j] = RBrace}
    IN  IF opens = {} THEN [found |-> FALSE, text |-> <<>>]
        ELSE LET i == CHOOSE x \in opens : \A y \in opens : x <= y
                 closes == {j \in (i + 1)..Len(toks) : toks[j] = RBrace}
                 j == CHOOSE x \in closes : \A y \in closes : y <= x
             IN  [found |-> TRUE, text |-> SubSeq(toks, i + 1, j - 1)]

\* re.search(r'\{.*\}', response, re.DOTALL): group(0), from the first
\* opening brace to the last closing brace after it
BraceSpan(toks) ==
    LET opens == {i \in 1..Len(toks) :
                     /\ toks[i] = LBrace
                     /\ \E j \in (i + 1)..Len(toks) : toks[j] = RBrace}
    IN  IF opens = {} THEN [found |-> FALSE, text |-> <<>>]
        ELSE LET i == CHOOSE x \in opens : \A y \in opens : x <= y
                 closes == {j \in (i + 1)..Len(toks) : toks[j] = RBrace}
                 j == CHOOSE x \in closes : \A y \in closes : y <= x
             IN  [found |-> TRUE, text |-> SubSeq(toks, i, j)]

\* the {} of line 130
EmptyDict == [exc |-> "", obj |-> TRUE, m |-> MembersToDict(<<>>), v |-> PyNone]

\* DramaEvaluator._parse_json_response: only JSONDecodeError is caught
_parse_json_response(response) ==
    LET whole  == json_loads(response)
        fenced == FencedBlock(response)
        span   == BraceSpan(response)
    IN  IF whole.exc # "JSONDecodeError" THEN whole
        ELSE IF fenced.found /\ json_loads(fenced.text).exc = ""
        THEN json_loads(fenced.text)
        ELSE IF span.found /\ json_loads(span.text).exc = ""
        THEN json_loads(span.text)
        ELSE EmptyDict

\* bool(eval_data)
DataTruthy(data) == IF data.obj THEN DOMAIN data.m # {} ELSE Truthy(data.v)

\* the strings of the model that contain the substring "score"
StringsWithScore == {"score"}

\* "score" in eval_data: the answer, or the exception raised
DataHasScore(data) ==
    CASE data.obj -> [exc |-> "", has |-> "score" \in DOMAIN data.m]
      [] data.v.t = "list" -> [exc |-> "", has |-> \E p \in data.v.d : p[1] = "score"]
      [] data.v.t = "str"  -> [exc |-> "", has |-> data.v.s \in StringsWithScore]
      [] OTHER -> [exc |-> "TypeError", has |-> FALSE]

\* dict.get(key, default)
DictGet(m, key, default) == IF key \in DOMAIN m THEN m[key] ELSE default

\* dim_scores.get(key, 0) on the items of a dimension_scores dict
DimGet(d, key) ==
    IF \E p \in d : p[1] = key THEN (CHOOSE p \in d : p[1] = key)[2] ELSE 0

FeedbackLine(label, v) == [l |-> label, v |-> v]

\* what evaluate_section hands back: exc = "" and the 4-tuple, or the exception
EvalResult(exc, passed, score, feedback, directive) ==
    [exc |-> exc, passed |-> passed, score |-> score, feedback |-> feedback,
     directive |-> directive]

EvalRaises(exc) == EvalResult(exc, FALSE, Num(0), <<>>, Str(""))

\* line 55: the reply gave no data with a score
Unparseable ==
    EvalResult("", FALSE, Num(0), <<FeedbackLine("unparseable", PyNone)>>,
               Str("format"))

\* faulty variant of Passed: the comparison is turned around
PassedInverted(total_score, target_score) ==
    FloatGE(Num(target_score), total_score)

\* line 81
Passed(total_score, target_score) == FloatGE(total_score, Num(target_score))

\* DramaEvaluator.evaluate_section, from the reply of self.llm.generate on
evaluate_section(response, target_score) ==
    LET data == _parse_json_response(response)
        has  == DataHasScore(data)
        total == PyFloat(DictGet(data.m, "score", Num(0)))
        dim_scores == DictGet(data.m, "dimension_scores", Dict({}))
        critique == DictGet(data.m, "critique", Str(""))
        directive == DictGet(data.m, "revision_plan", Str(""))
        feedback_lines ==
            <<FeedbackLine("total", total.x)>>
            \o (IF Truthy(dim_scores)
                THEN <<FeedbackLine("visual", Num(DimGet(dim_scores.d, "visual"))),
                       FeedbackLine("emotion", Num(DimGet(dim_scores.d, "emotion"))),
                       FeedbackLine("hook", Num(DimGet(dim_scores.d, "hook")))>>
                ELSE <<>>)
            \o (IF Truthy(critique) THEN <<FeedbackLine("critique", critique)>> ELSE <<>>)
            \o (IF Truthy(directive) THEN <<FeedbackLine("plan", directive)>> ELSE <<>>)
    IN  IF data.exc # "" THEN EvalRaises(data.exc)
        ELSE IF ~DataTruthy(data) THEN Unparseable
        ELSE IF has.exc # "" THEN EvalRaises(has.exc)
        ELSE IF ~has.has THEN Unparseable
        ELSE IF ~data.obj THEN EvalRaises("AttributeError")
        ELSE IF total.exc # "" THEN EvalRaises(total.exc)
        ELSE IF Truthy(dim_scores) /\ dim_scores.t # "dict" THEN EvalRaises("AttributeError")
        ELSE EvalResult("", Passed(total.x, target_score), total.x, feedback_lines,
                        directive)

(***************************************************************************)
(* Judge replies of the model                                              *)
(***************************************************************************)
\* what a reply may give for "score", "dimension_scores", "critique" and
\* "revision_plan"; <<>> stands for the key being absent
ScoreMembers ==
    {<<>>} \cup {<<Member("score", v)>> :
                    v \in {Num(95), Num(90), Num(89), Num(10), Num(150), PyNaN,
                           Str("95"), Str("abc"), PyNone}}

DimensionMembers ==
    {<<>>,
     <<Member("dimension_scores", Dict({<<"visual", 90>>, <<"hook", 80>>}))>>,
     <<Member("dimension_scores", List({<<"high", 1>>}))>>}

CritiqueMembers == {<<>>, <<Member("critique", Str("weak"))>>}

PlanMembers == {<<>>, <<Member("revision_plan", Str("plan"))>>}

\* the text of a JSON object
ObjectText(members) == <<LBrace>> \o members \o <<RBrace>>

JudgeObjects ==
    {ObjectText(sc \o dm \o cr \o pl) :
        sc \in ScoreMembers, dm \in DimensionMembers, cr \in CritiqueMembers,
        pl \in PlanMembers}

\* replies that are valid JSON but no object
JudgeScalars ==
    {<<Scalar(v)>> :
        v \in {Num(5), Num(0), PyTrue, PyNone, Str("score"), Str("hello"),
               List({}), List({<<"score", 1>>}), List({<<"high", 1>>})}}

\* replies that hold no JSON value at all
JudgeGarbage ==
    {<<>>, <<Prose>>, <<LBrace, Prose, RBrace>>, <<LBrace, Member("score", Num(95))>>}

\* the three ways a reply may carry a payload
Forms == {"raw", "fenced", "embedded"}

InForm(form, payload) ==
    CASE form = "raw"      -> payload
      [] form = "fenced"   -> <<FenceJson, Blank>> \o payload \o <<Blank, Fence>>
      [] form = "embedded" -> <<Prose, Blank>> \o payload \o <<Blank, Prose>>

\* the objects that follow the judge response schema for "score" and
\* "dimension_scores": a number, and an object of numbers if given
SchemaObjects ==
    {ObjectText(sc \o dm \o cr \o pl) :
        sc \in {<<Member("score", Num(n))>> : n \in {95, 90, 89, 10}},
        dm \in {d \in DimensionMembers : d = <<>> \/ d[1].v.t = "dict"},
        cr \in CritiqueMembers, pl \in PlanMembers}

\* the objects that have a "score" key
ScoredObjects ==
    {ObjectText(sc \o dm \o cr \o pl) :
        sc \in ScoreMembers \ {<<>>}, dm \in DimensionMembers, cr \in CritiqueMembers,
        pl \in PlanMembers}

JudgeCase(kind, payload) ==
    [kind |-> kind, conforms |-> payload \in SchemaObjects,
     scored |-> payload \in ScoredObjects,
     replies |-> [f \in Forms |-> IF kind = "missing" THEN NoneReply
                                  ELSE InForm(f, payload)]]

JudgeCases ==
    {JudgeCase("object", o) : o \in JudgeObjects}
    \cup {JudgeCase("scalar", o) : o \in JudgeScalars}
    \cup {JudgeCase("garbage", o) : o \in JudgeGarbage}
    \cup {JudgeCase("missing", <<>>)}

\* rubric.get('target_pass_score', 90)
DefaultTargetScore == 90

\* the rubrics of the model: what yaml.safe_load gave for the rubric file
EmptyRubric == <<>>

Rubrics == {EmptyRubric, [target_pass_score |-> 10]}

\* line 27: self.rubric.get('target_pass_score', 90)
RubricTargetScore(r) ==
    IF "target_pass_score" \in DOMAIN r THEN r.target_pass_score
    ELSE DefaultTargetScore

\* the thresholds a rubric of the model sets
TargetScores == {RubricTargetScore(r) : r \in Rubrics}

NotCalled == EvalRaises("not-called")

(***************************************************************************)
(* agents/writer.py: Writer.write_section                                  *)
(***************************************************************************)
VARIABLES
    mode,                        \* self.mode
    max_retries,                 \* argument
    target_words,                \* subtask.target_words
    target_score,                \* self.evaluator.target_score
    rubric,                      \* self.evaluator.rubric
    pc,                          \* where the calling thread stands
    retries,
    current_feedback_directive,  \* sequence of lines; <<>> is ""
    final_content,
    branches,                    \* in the order as_completed yielded them
    evaluated_branches,          \* in the order as_completed yielded them
    genPending,                  \* generation futures not yet yielded
    evalPending,                 \* evaluation futures not yet yielded
    accumulated_content,
    current_words,
    continuation_retries,
    rounds,                      \* history: rounds begun
    selected,                    \* history: best_branch of the last selection
    selectedRound,               \* history: the round of that selection
    accepted,                    \* history: line 383 took the passed branch
    genReturned,                 \* history: branch ids whose generation returned
    evalReturned,                \* history: branch ids whose evaluation returned
    contCalls,                   \* history: generation calls of the continuation loop
    genPrompts,                  \* history: the prompt of each generation worker of the round
    directiveRound,              \* history: the round that current_feedback_directive is from
    judgeCalled,                 \* history: an evaluation worker has asked the judge
    contModes,                   \* history: is_final_chunk of each continuation call, in order
    jkind,                       \* judge session: kind of payload
    jconforms,                   \* judge session: the payload follows the schema
    jscored,                     \* judge session: the payload is an object with a score
    jreplies,                    \* judge session: the reply in each form
    jout,                        \* judge session: evaluate_section's outcome per form
    cancel_requested,            \* the caller has asked for the section to be given up
    retry_policy,                \* with_retry: max_retries, base_delay, max_delay
    wrapper_pc,                  \* with_retry: where wrapper stands
    wrapper_retries,             \* with_retry: retries
    wrapper_delay,               \* with_retry: delay
    attempts,                    \* history: calls of func made by wrapper
    slept,                       \* history: the delays wrapper slept, in order
    files,                       \* the file system: <<path, data>> of each file
    max_summaries,               \* ContextManager
    summaries,                   \* ContextManager
    settings,                    \* ContextManager
    character_states,            \* ContextManager
    cm_pc,                       \* what the holder of the ContextManager has done
    cm_filepath,                 \* the path given to save_to_file
    new_cm,                      \* the ContextManager() that load_from_file is called on
    added,                       \* history: every summary given to add_chapter_summary
    updates,                     \* history: every call of update_character_state
    store,                       \* a SettingsStore: its fields
    new_store,                   \* the SettingsStore() that load_from_file is called on
    store_pc,                    \* what the holder of the SettingsStore has done
    store_filepath,              \* the path given to save_to_file
    resolved_with,               \* history: <<id, chapter>> of the last resolve_plot_point
                                 \* call that named each plot point of store
    resolve_calls                \* history: every id given to resolve_plot_point

writerVars ==
    <<mode, max_retries, target_words, pc, retries, current_feedback_directive,
      final_content, branches, evaluated_branches, genPending, evalPending,
      accumulated_content, current_words, continuation_retries, rounds, selected,
      selectedRound, accepted, genReturned, evalReturned, contCalls, genPrompts,
      directiveRound, judgeCalled, contModes>>

judgeVars == <<jkind, jconforms, jscored, jreplies, jout>>

retryVars == <<retry_policy, wrapper_pc, wrapper_retries, wrapper_delay, attempts, slept>>

cmVars ==
    <<max_summaries, summaries, settings, character_states, cm_pc, cm_filepath,
      new_cm, added, updates>>

storeVars == <<store, new_store, store_pc, store_filepath, resolved_with, resolve_calls>>

\* what write_section and evaluate_section do not touch
otherVars == <<retryVars, files, cmVars, storeVars>>

\* what a with_retry wrapper does not touch
outsideRetry ==
    <<writerVars, target_score, rubric, judgeVars, cancel_requested, files, cmVars,
      storeVars>>

\* what a ContextManager does not touch
outsideCM ==
    <<writerVars, target_score, rubric, judgeVars, cancel_requested, retryVars,
      storeVars>>

\* what a SettingsStore does not touch
outsideStore ==
    <<writerVars, target_score, rubric, judgeVars, cancel_requested, retryVars, cmVars>>

vars == <<writerVars, target_score, rubric, judgeVars, cancel_requested, otherVars>>

\* largest max_retries the model passes to write_section
MaxRetriesBound == 1

\* line 297
DramaBranches == 3

\* line 406
max_continuations == 8

\* faulty variant of number_of_branches: one branch in every mode
OneBranchAlways(m) == 1

\* line 297: number_of_branches
number_of_branches(m) == IF m = "drama" THEN DramaBranches ELSE 1

\* texts a branch generation call returns
BranchTexts == {<<>>, <<"C", "a", "a", " ", "C">>}

\* texts a continuation call returns
ChunkTexts == {<<>>, <<" ">>, <<" ", "C", "a", "\n">>}

\* subtask.target_words
TargetWords == {3, 4}

\* replies the judge model gives while write_section runs
WriterReplies ==
    {ObjectText(<<Member("score", Num(95)), Member("revision_plan", Str("plan"))>>),
     InForm("fenced", ObjectText(<<Member("score", Num(10)),
                                   Member("revision_plan", Str("plan"))>>)),
     <<Scalar(Num(5))>>}

\* a reply whose score is the literal NaN
NanReplies ==
    {ObjectText(<<Member("score", PyNaN), Member("revision_plan", Str("plan"))>>)}

\* line 345, by character class
ApiFailureNotice ==
    <<
      "a", "C", "C", "C", "C", "a", "C", "C", "C", "C", " ", "a",
      "a", "a", " ", "C", "C", "C", "C", "C", "C", "a", "C", "C",
      "C", "C", "C", "C", "C", "C", "a", "C", "C", "C", "C", "C",
      "C", " ", "a", "a", "a", " ", "C", "C", "C", "C", "a", "a"
    >>

\* one line of the directive handed to the next round
DirectiveLine(idx, score, directive) ==
    [idx |-> idx, score |-> score, directive |-> directive]

\* line 341
GenerationFailedDirective == <<DirectiveLine(0, Num(0), Str("generation-failed"))>>

\* line 371
EvaluationFailedDirective == <<DirectiveLine(0, Num(0), Str("evaluation-failed"))>>

NoBranch ==
    [passed |-> FALSE, score |-> Num(0), feedback |-> <<>>, directive |-> Str(""),
     content |-> <<>>, id |-> -1, round |-> 0, judged |-> -1]

\* line 359: evaluate_section(content) + (content,), with the branch id and
\* the round of its generation kept
ScoredBranch(out, branch) ==
    [passed |-> out.passed, score |-> out.score, feedback |-> out.feedback,
     directive |-> out.directive, content |-> branch.content, id |-> branch.id,
     round |-> branch.round, judged |-> -1]

\* faulty variant of EvaluatedContent: the content is taken by the place of the
\* result in the order of completion
ContentByCompletion(bs, j, yielded) == bs[yielded + 1]

\* lines 358-362: the worker submitted for bs[j] appends its own argument to
\* the judge's result, whatever number of results were yielded before
EvaluatedContent(bs, j, yielded) == bs[j]

\* the branch recorded with the id of the branch whose content the judge read
JudgedAs(scored, branch) == [scored EXCEPT !.judged = branch.id]

\* line 415
FinalChunkThreshold == 500

\* faulty variant of is_final_chunk: the last iteration is not looked at
FinalOnlyWhenClose(remaining_words, cr) == remaining_words < FinalChunkThreshold

\* faulty variant of is_final_chunk: the closing instruction is given first
FinalOnFirst(remaining_words, cr) == cr = 0

\* line 415: is_final_chunk
is_final_chunk(remaining_words, cr) ==
    remaining_words < FinalChunkThreshold \/ cr = max_continuations - 1

\* faulty variant of PromptDirective: the directive is not put in the prompt
PromptWithoutDirective(directive) == <<>>

\* lines 312-313: what the prompt of a round holds of the directive ("" is <<>>)
PromptDirective(directive) == IF directive # <<>> THEN directive ELSE <<>>

\* lines 320-323: the prompt of worker branch_idx; divergence is <<>> when the
\* instruction is absent and <<n>> when it names branch n
BranchPrompt(directive, branch_idx, n) ==
    [directive |-> PromptDirective(directive),
     divergence |-> IF n > 1 THEN <<branch_idx + 1>> ELSE <<>>]

\* no history of prompts, judge calls and continuation modes has been made
TraceIdle ==
    /\ genPrompts = <<>>
    /\ directiveRound = 0
    /\ judgeCalled = FALSE
    /\ contModes = <<>>

\* line 310
LoopContinues(r, m) == r <= m

\* faulty variant of RetriesExhausted: the cap is tested one retry late
RetriesExhaustedLate(r, m) == r > m + 1

\* lines 343, 373, 394
RetriesExhausted(r, m) == r > m

(***************************************************************************)
(* list.sort (CPython listobject.c) on a list shorter than 64: the list is *)
(* reversed when reverse=True, its leading run is found (and reversed if   *)
(* strictly descending), the rest is put in place by binary insertion, and *)
(* the list is reversed back.  Only key(x) < key(y) is ever asked.         *)
(***************************************************************************)
Reverse(xs) == [i \in 1..Len(xs) |-> xs[Len(xs) + 1 - i]]

\* ISLT under key=lambda x: x[1]
ScoreLT(x, y) == FloatLT(x.score, y.score)

\* count_run, for Len(a) >= 2: the length of the leading run and its direction
CountRun(a) ==
    LET descending == ScoreLT(a[2], a[1])
        runs == {m \in 2..Len(a) :
                    \A i \in 3..m : ScoreLT(a[i], a[i - 1]) = descending}
    IN  [n |-> CHOOSE m \in runs : \A k \in runs : k <= m, descending |-> descending]

RECURSIVE Bisect(_, _, _, _)
\* the search loop of binarysort: where pivot goes among a[l..r-1]
Bisect(a, pivot, l, r) ==
    IF l >= r THEN l
    ELSE LET p == l + ((r - l) \div 2)
         IN  IF ScoreLT(pivot, a[p]) THEN Bisect(a, pivot, l, p)
             ELSE Bisect(a, pivot, p + 1, r)

RECURSIVE BinarySort(_, _)
\* binarysort: a[1..start-1] is in place; a[start..] is inserted one by one
BinarySort(a, start) ==
    IF start > Len(a) THEN a
    ELSE LET pos == Bisect(a, a[start], 1, start)
         IN  BinarySort(SubSeq(a, 1, pos - 1) \o <<a[start]>>
                            \o SubSeq(a, pos, start - 1)
                            \o SubSeq(a, start + 1, Len(a)),
                        start + 1)

ListSort(a) ==
    IF Len(a) < 2 THEN a
    ELSE LET run == CountRun(a)
             lead == SubSeq(a, 1, run.n)
             rest == SubSeq(a, run.n + 1, Len(a))
         IN  BinarySort((IF run.descending THEN Reverse(lead) ELSE lead) \o rest,
                        run.n + 1)

\* line 379: evaluated_branches.sort(key=lambda x: x[1], reverse=True)
SortByScoreDesc(xs) == Reverse(ListSort(Reverse(xs)))

\* faulty variant of AcceptsBranch: the gate is never open
AcceptsNever(best_branch) == FALSE

\* line 383: if passed
AcceptsBranch(best_branch) == best_branch.passed

\* faulty variant of AggregateDirectives: the lines are not joined in
NoDirectives(sorted) == <<>>

\* lines 390-391
AggregateDirectives(sorted) ==
    [i \in 1..Len(sorted) |-> DirectiveLine(i, sorted[i].score, sorted[i].directive)]

\* faulty variant of NextDirective: the lines are added to the directive held
AccumulatedDirective(old, lines) == old \o lines

\* line 391: current_feedback_directive = "\n".join(aggregated_directives)
NextDirective(old, lines) == lines

\* faulty variant of ContinuationStart: the phase starts from the empty text
StartFromNothing(final) == <<>>

\* line 402: accumulated_content = final_content
ContinuationStart(final) == final

\* faulty variant of ContinuationWanted: the target is not looked at
ContinuationIgnoresTarget(cw, tw, cr) == cr < max_continuations

\* line 408
ContinuationWanted(cw, tw, cr) == cw < tw /\ cr < max_continuations

\* faulty variant of AppendChunk: = in place of +=
ReplaceByChunk(acc, chunk) == Strip(chunk)

\* lines 445-446
AppendChunk(acc, chunk) == acc \o <<"\n", "\n">> \o Strip(chunk)

\* faulty variant of RecountWords: len() in place of count_words()
CountCharacters(content) == Len(content)

\* line 447
RecountWords(content) == count_words(content)

\* faulty variant of NextContinuationRetries: the counter advances only when
\* a chunk was appended
CountAppendedOnly(cr, chunk) == IF chunk # <<>> THEN cr + 1 ELSE cr

\* line 449
NextContinuationRetries(cr, chunk) == cr + 1

Modes == {"drama", "novel"}

MaxRetriesValues == -1..MaxRetriesBound

\* no with_retry wrapper is under observation
RetryIdle ==
    /\ retry_policy = [max_retries |-> 0, base_delay |-> 0, max_delay |-> 0]
    /\ wrapper_pc = "idle"
    /\ wrapper_retries = 0
    /\ wrapper_delay = 0
    /\ attempts = 0
    /\ slept = <<>>

\* ContextManager.__init__(self, max_summaries: int = 10, ...)
DefaultMaxSummaries == 10

\* lines 36-41: the fields after __init__
NewContextManager(m) ==
    [max_summaries |-> m, summaries |-> <<>>, settings |-> {}, character_states |-> {}]

\* no ContextManager is under observation
CMIdle ==
    /\ max_summaries = 0
    /\ summaries = <<>>
    /\ settings = {}
    /\ character_states = {}
    /\ cm_pc = "idle"
    /\ cm_filepath = ""
    /\ new_cm = NewContextManager(DefaultMaxSummaries)
    /\ added = <<>>
    /\ updates = <<>>

\* settings_store.py lines 58-65: the fields after __init__
NewSettingsStore ==
    [world_settings |-> {}, characters |-> {}, plot_points |-> <<>>, timeline |-> <<>>,
     _plot_id_counter |-> 0, _timeline_id_counter |-> 0]

\* no SettingsStore is under observation
StoreIdle ==
    /\ store = NewSettingsStore
    /\ new_store = NewSettingsStore
    /\ store_pc = "idle"
    /\ store_filepath = ""
    /\ resolved_with = {}
    /\ resolve_calls = {}

OthersIdle == RetryIdle /\ files = {} /\ CMIdle /\ StoreIdle

JudgeIdle ==
    /\ jkind = "idle"
    /\ jconforms = FALSE
    /\ jscored = FALSE
    /\ jreplies = [f \in Forms |-> <<>>]
    /\ jout = [f \in Forms |-> NotCalled]

\* lines 279-305: write_section is entered, whatever subtask.target_words is
Entered ==
    /\ mode \in Modes
    /\ max_retries \in MaxRetriesValues
    /\ rubric = EmptyRubric
    /\ target_score = RubricTargetScore(rubric)
    /\ pc = "loop"
    /\ retries = 0
    /\ current_feedback_directive = <<>>
    /\ final_content = <<>>
    /\ branches = <<>>
    /\ evaluated_branches = <<>>
    /\ genPending = {}
    /\ evalPending = {}
    /\ accumulated_content = <<>>
    /\ current_words = 0
    /\ continuation_retries = 0
    /\ rounds = 0
    /\ selected = NoBranch
    /\ selectedRound = 0
    /\ accepted = FALSE
    /\ genReturned = {}
    /\ evalReturned = {}
    /\ contCalls = 0
    /\ TraceIdle
    /\ JudgeIdle
    /\ cancel_requested = FALSE
    /\ OthersIdle

Init == target_words \in TargetWords /\ Entered

contVars ==
    <<accumulated_content, current_words, continuation_retries, contCalls, contModes>>

configVars ==
    <<mode, max_retries, target_words, target_score, rubric, judgeVars,
      cancel_requested, otherVars>>

\* faulty variant of NewBranchList: the list of the round before is kept
KeptBranchList(old) == old

\* line 317: branches = []
NewBranchList(old) == <<>>

\* lines 310-333: the loop test holds; the round's generation workers are
\* submitted.  evaluated_branches is not read before line 356 assigns it again.
BeginRound ==
    /\ pc = "loop"
    /\ LoopContinues(retries, max_retries)
    /\ pc' = "gen"
    /\ branches' = NewBranchList(branches)
    /\ genPending' = 0..(number_of_branches(mode) - 1)
    /\ genReturned' = {}
    /\ evalReturned' = {}
    /\ rounds' = rounds + 1
    /\ evaluated_branches' = <<>>
    /\ selected' = NoBranch
    /\ genPrompts' =
          [i \in 1..number_of_branches(mode) |->
              BranchPrompt(current_feedback_directive, i - 1, number_of_branches(mode))]
    /\ UNCHANGED <<retries, current_feedback_directive, final_content, evalPending,
                   selectedRound, accepted, directiveRound, judgeCalled, contVars,
                   configVars>>

\* line 310: the loop test fails
LeaveLoop ==
    /\ pc = "loop"
    /\ ~LoopContinues(retries, max_retries)
    /\ pc' = "expand"
    /\ UNCHANGED <<retries, current_feedback_directive, final_content, branches,
                   evaluated_branches, genPending, evalPending, rounds, selected,
                   selectedRound, accepted, genReturned, evalReturned, genPrompts,
                   directiveRound, judgeCalled, contVars, configVars>>

\* lines 325-336: worker branch_idx returns a text and as_completed yields it
GenReturn(branch_idx) ==
    /\ pc = "gen"
    /\ branch_idx \in genPending
    /\ \E text \in BranchTexts :
          branches' = Append(branches, [id |-> branch_idx, content |-> text,
                                        round |-> rounds])
    /\ genPending' = genPending \ {branch_idx}
    /\ genReturned' = genReturned \cup {branch_idx}
    /\ UNCHANGED <<pc, retries, current_feedback_directive, final_content,
                   evaluated_branches, evalPending, rounds, selected, selectedRound,
                   accepted, evalReturned, genPrompts, directiveRound, judgeCalled,
                   contVars, configVars>>

\* faulty variant of AfterGenerationError: the error discards the round's results
DiscardOnGenerationError(collected) == <<>>

\* what the as_completed loop has collected once a generation future raised
\* (lines 337-338: the exception is printed)
AfterGenerationError(collected) == collected

\* lines 325-338: worker branch_idx raises
GenRaise(branch_idx) ==
    /\ pc = "gen"
    /\ branch_idx \in genPending
    /\ branches' = AfterGenerationError(branches)
    /\ genPending' = genPending \ {branch_idx}
    /\ UNCHANGED <<pc, retries, current_feedback_directive, final_content,
                   evaluated_branches, evalPending, rounds, selected, selectedRound,
                   accepted, genReturned, evalReturned, genPrompts, directiveRound,
                   judgeCalled, contVars, configVars>>

\* faulty variant of RetriesAfterFailedGeneration: the round is not counted
RetriesKept(r) == r

\* line 342
RetriesAfterFailedGeneration(r) == r + 1

\* lines 340-362: every generation future was yielded
GenJoin ==
    /\ pc = "gen"
    /\ genPending = {}
    /\ IF branches = <<>>
       THEN /\ current_feedback_directive' = GenerationFailedDirective
            /\ retries' = RetriesAfterFailedGeneration(retries)
            /\ IF RetriesExhausted(retries', max_retries)
               THEN final_content' = ApiFailureNotice /\ pc' = "expand"
               ELSE final_content' = final_content /\ pc' = "loop"
            /\ directiveRound' = rounds
            /\ UNCHANGED <<evaluated_branches, evalPending>>
       ELSE IF mode # "drama"
       THEN /\ final_content' = branches[1].content
            /\ pc' = "expand"
            /\ UNCHANGED <<current_feedback_directive, retries, evaluated_branches,
                           evalPending, directiveRound>>
       ELSE /\ evaluated_branches' = <<>>
            /\ evalPending' = 1..Len(branches)
            /\ pc' = "eval"
            /\ UNCHANGED <<current_feedback_directive, retries, final_content,
                           directiveRound>>
    /\ UNCHANGED <<branches, genPending, rounds, selected, selectedRound, accepted,
                   genReturned, evalReturned, genPrompts, judgeCalled, contVars,
                   configVars>>

\* what the as_completed loop has collected once an evaluation future raised
\* (lines 366-368: the exception is logged)
AfterEvaluationError(collected) == collected

\* lines 358-365: the judge model answers the worker of branches[j] with one
\* of replies, and evaluate_section returns or raises on that reply
EvalReturnFrom(j, replies) ==
    /\ pc = "eval"
    /\ j \in evalPending
    /\ \E reply \in replies :
          LET out == evaluate_section(reply, target_score)
          IN  IF out.exc = ""
              THEN /\ evaluated_branches' =
                          Append(evaluated_branches,
                                 JudgedAs(ScoredBranch(out,
                                              EvaluatedContent(branches, j,
                                                  Len(evaluated_branches))),
                                          branches[j]))
                   /\ evalReturned' = evalReturned \cup {branches[j].id}
              ELSE /\ evaluated_branches' = AfterEvaluationError(evaluated_branches)
                   /\ evalReturned' = evalReturned
    /\ evalPending' = evalPending \ {j}
    /\ judgeCalled' = TRUE
    /\ UNCHANGED <<pc, retries, current_feedback_directive, final_content, branches,
                   genPending, rounds, selected, selectedRound, accepted, genReturned,
                   genPrompts, directiveRound, contVars, configVars>>

EvalReturn(j) == EvalReturnFrom(j, WriterReplies)

\* lines 358-368: self.llm.generate raises in the worker of branches[j]
EvalRaise(j) ==
    /\ pc = "eval"
    /\ j \in evalPending
    /\ evaluated_branches' = AfterEvaluationError(evaluated_branches)
    /\ evalPending' = evalPending \ {j}
    /\ judgeCalled' = TRUE
    /\ UNCHANGED <<pc, retries, current_feedback_directive, final_content, branches,
                   genPending, rounds, selected, selectedRound, accepted, genReturned,
                   evalReturned, genPrompts, directiveRound, contVars, configVars>>

\* lines 370-397: every evaluation future was yielded
EvalJoin ==
    /\ pc = "eval"
    /\ evalPending = {}
    /\ IF evaluated_branches = <<>>
       THEN /\ current_feedback_directive' = EvaluationFailedDirective
            /\ retries' = retries + 1
            /\ IF RetriesExhausted(retries', max_retries)
               THEN final_content' = branches[1].content /\ pc' = "expand"
               ELSE final_content' = final_content /\ pc' = "loop"
            /\ directiveRound' = rounds
            /\ UNCHANGED <<evaluated_branches, selected, selectedRound, accepted>>
       ELSE LET sorted == SortByScoreDesc(evaluated_branches)
                best_branch == sorted[1]
            IN  /\ evaluated_branches' = sorted
                /\ selected' = best_branch
                /\ selectedRound' = rounds
                /\ IF AcceptsBranch(best_branch)
                   THEN /\ final_content' = best_branch.content
                        /\ accepted' = TRUE
                        /\ pc' = "expand"
                        /\ UNCHANGED <<current_feedback_directive, retries,
                                       directiveRound>>
                   ELSE /\ current_feedback_directive' =
                               NextDirective(current_feedback_directive,
                                             AggregateDirectives(sorted))
                        /\ directiveRound' = rounds
                        /\ retries' = retries + 1
                        /\ accepted' = accepted
                        /\ IF RetriesExhausted(retries', max_retries)
                           THEN final_content' = best_branch.content /\ pc' = "expand"
                           ELSE final_content' = final_content /\ pc' = "loop"
    /\ UNCHANGED <<branches, genPending, evalPending, rounds, genReturned,
                   evalReturned, genPrompts, judgeCalled, contVars, configVars>>

\* lines 402-406: the continuation phase is entered.  The locals of the
\* selection phase are not read again and are left out of the state from here.
InitContinuation ==
    /\ pc = "expand"
    /\ accumulated_content' = ContinuationStart(final_content)
    /\ current_words' = count_words(final_content)
    /\ continuation_retries' = 0
    /\ pc' = "cont"
    /\ branches' = <<>>
    /\ evaluated_branches' = <<>>
    /\ current_feedback_directive' = <<>>
    /\ selected' = NoBranch
    /\ genReturned' = {}
    /\ evalReturned' = {}
    /\ genPrompts' = <<>>
    /\ directiveRound' = 0
    /\ UNCHANGED <<retries, final_content, genPending, evalPending, rounds,
                   selectedRound, accepted, judgeCalled, contCalls, contModes,
                   configVars>>

phaseOneVars ==
    <<retries, current_feedback_directive, final_content, branches,
      evaluated_branches, genPending, evalPending, rounds, selected, selectedRound,
      accepted, genReturned, evalReturned, genPrompts, directiveRound, judgeCalled>>

\* lines 408-449: one iteration of the continuation loop
ContinueChunk ==
    /\ pc = "cont"
    /\ ContinuationWanted(current_words, target_words, continuation_retries)
    /\ \E continuation_chunk \in ChunkTexts :
          /\ IF continuation_chunk # <<>>
             THEN /\ accumulated_content' =
                         AppendChunk(accumulated_content, continuation_chunk)
                  /\ current_words' = RecountWords(accumulated_content')
             ELSE UNCHANGED <<accumulated_content, current_words>>
          /\ continuation_retries' =
                 NextContinuationRetries(continuation_retries, continuation_chunk)
    /\ contCalls' = contCalls + 1
    /\ contModes' =
          Append(contModes,
                 is_final_chunk(target_words - current_words, continuation_retries))
    /\ UNCHANGED <<pc, phaseOneVars, configVars>>

\* lines 437-441: the generation call of an iteration raises, and so does
\* write_section
ContinueRaise ==
    /\ pc = "cont"
    /\ ContinuationWanted(current_words, target_words, continuation_retries)
    /\ contCalls' = contCalls + 1
    /\ contModes' =
          Append(contModes,
                 is_final_chunk(target_words - current_words, continuation_retries))
    /\ pc' = "raised"
    /\ UNCHANGED <<accumulated_content, current_words, continuation_retries,
                   phaseOneVars, configVars>>

\* lines 18-25: the dataclass, with the fields a caller can read
GeneratedSection(content, word_count) ==
    [subtask_id |-> "subtask.id", chapter_id |-> "subtask.chapter_id",
     content |-> content, word_count |-> word_count, summary |-> <<>>]

\* lines 456-461: the value write_section returns
Returned == GeneratedSection(accumulated_content, current_words)

\* faulty variant of AfterContinuation: the controller goes back to selection
BackToSelection == "loop"

\* lines 451-461: after the continuation loop write_section only returns
AfterContinuation == "done"

\* lines 408, 451-461: the loop test fails; the GeneratedSection is returned
\* with content = accumulated_content and word_count = current_words
Return ==
    /\ pc = "cont"
    /\ ~ContinuationWanted(current_words, target_words, continuation_retries)
    /\ pc' = AfterContinuation
    /\ UNCHANGED <<contVars, phaseOneVars, configVars>>

Next ==
    \/ BeginRound
    \/ LeaveLoop
    \/ \E i \in 0..(DramaBranches - 1) : GenReturn(i)
    \/ \E i \in 0..(DramaBranches - 1) : GenRaise(i)
    \/ GenJoin
    \/ \E j \in 1..DramaBranches : EvalReturn(j)
    \/ \E j \in 1..DramaBranches : EvalRaise(j)
    \/ EvalJoin
    \/ InitContinuation
    \/ ContinueChunk
    \/ ContinueRaise
    \/ Return

Spec == Init /\ [][Next]_vars

(***************************************************************************)
(* write_section in relaxed mode with a target that the first text misses  *)
(* by more than the threshold of line 415, so that the continuation loop   *)
(* runs iterations of both kinds                                           *)
(***************************************************************************)
\* subtask.target_words: 501 more than the words of a branch text
ExpandTargets == {FinalChunkThreshold + 4}

ExpandInit ==
    /\ target_words \in ExpandTargets
    /\ Entered
    /\ mode = "novel"
    /\ max_retries <= 0

ExpandNext ==
    \/ BeginRound
    \/ LeaveLoop
    \/ GenReturn(0)
    \/ GenRaise(0)
    \/ GenJoin
    \/ InitContinuation
    \/ ContinueChunk
    \/ ContinueRaise
    \/ Return

ExpandSpec == ExpandInit /\ [][ExpandNext]_vars

(***************************************************************************)
(* write_section with a judge model that may also score a branch NaN       *)
(***************************************************************************)
EvalReturnNan(j) == EvalReturnFrom(j, WriterReplies \cup NanReplies)

NanInit == Init /\ max_retries <= 0

NanNext ==
    \/ BeginRound
    \/ LeaveLoop
    \/ \E i \in 0..(DramaBranches - 1) : GenReturn(i)
    \/ \E i \in 0..(DramaBranches - 1) : GenRaise(i)
    \/ GenJoin
    \/ \E j \in 1..DramaBranches : EvalReturnNan(j)
    \/ \E j \in 1..DramaBranches : EvalRaise(j)
    \/ EvalJoin
    \/ InitContinuation
    \/ ContinueChunk
    \/ ContinueRaise
    \/ Return

NanSpec == NanInit /\ [][NanNext]_vars

(***************************************************************************)
(* write_section while its caller asks for the section to be given up.     *)
(* write_section takes no cancellation argument and reads no flag or event *)
(* (lines 269-275), so the request changes none of its steps.              *)
(***************************************************************************)
Cancel ==
    /\ pc \notin {"done", "raised"}
    /\ ~cancel_requested
    /\ cancel_requested' = TRUE
    /\ UNCHANGED <<writerVars, target_score, rubric, judgeVars, otherVars>>

CancelInit == Init /\ max_retries <= 0

CancelNext ==
    \/ BeginRound
    \/ LeaveLoop
    \/ \E i \in 0..(DramaBranches - 1) : GenReturn(i)
    \/ \E i \in 0..(DramaBranches - 1) : GenRaise(i)
    \/ GenJoin
    \/ \E j \in 1..DramaBranches : EvalReturn(j)
    \/ \E j \in 1..DramaBranches : EvalRaise(j)
    \/ EvalJoin
    \/ InitContinuation
    \/ ContinueChunk
    \/ ContinueRaise
    \/ Return
    \/ Cancel

CancelSpec == CancelInit /\ [][CancelNext]_vars

\* write_section is not running
WriterIdle ==
    /\ mode = "novel"
    /\ max_retries = 0
    /\ target_words = 0
    /\ rubric = EmptyRubric
    /\ target_score = DefaultTargetScore
    /\ pc = "idle"
    /\ retries = 0
    /\ current_feedback_directive = <<>>
    /\ final_content = <<>>
    /\ branches = <<>>
    /\ evaluated_branches = <<>>
    /\ genPending = {}
    /\ evalPending = {}
    /\ accumulated_content = <<>>
    /\ current_words = 0
    /\ continuation_retries = 0
    /\ rounds = 0
    /\ selected = NoBranch
    /\ selectedRound = 0
    /\ accepted = FALSE
    /\ genReturned = {}
    /\ evalReturned = {}
    /\ contCalls = 0
    /\ TraceIdle
    /\ cancel_requested = FALSE

(***************************************************************************)
(* with_retry (src/utils/llm_client.py): wrapper around one request        *)
(***************************************************************************)
\* with_retry(max_retries: int = 3, base_delay: float = 2.0, max_delay: float = 60.0)
DefaultMaxRetries == 3

DefaultBaseDelay == 2

DefaultMaxDelay == 60

DefaultPolicy ==
    [max_retries |-> DefaultMaxRetries, base_delay |-> DefaultBaseDelay,
     max_delay |-> DefaultMaxDelay]

\* largest max_retries a decorator is given
MaxPolicyRetries == 4

\* the policies a decorator is given
RetryPolicies ==
    [max_retries : 0..MaxPolicyRetries, base_delay : {1, DefaultBaseDelay},
     max_delay : {3, DefaultMaxDelay}]

Min(a, b) == IF a <= b THEN a ELSE b

\* lines 28-29: wrapper is called
RetryInit ==
    /\ WriterIdle
    /\ JudgeIdle
    /\ files = {}
    /\ CMIdle
    /\ StoreIdle
    /\ retry_policy \in RetryPolicies
    /\ wrapper_pc = "call"
    /\ wrapper_retries = 0
    /\ wrapper_delay = retry_policy.base_delay
    /\ attempts = 0
    /\ slept = <<>>

\* line 32: func returns, and so does wrapper
AttemptReturns ==
    /\ wrapper_pc = "call"
    /\ attempts' = attempts + 1
    /\ wrapper_pc' = "returned"
    /\ UNCHANGED <<retry_policy, wrapper_retries, wrapper_delay, slept>>
    /\ UNCHANGED outsideRetry

\* line 35: if retries > max_retries
GivesUp(r, policy) == r > policy.max_retries

\* lines 33-45: func raises
AttemptRaises ==
    /\ wrapper_pc = "call"
    /\ attempts' = attempts + 1
    /\ wrapper_retries' = wrapper_retries + 1
    /\ IF GivesUp(wrapper_retries', retry_policy)
       THEN /\ wrapper_pc' = "raised"
            /\ UNCHANGED <<wrapper_delay, slept>>
       ELSE /\ wrapper_pc' = "call"
            /\ slept' = Append(slept, wrapper_delay)
            /\ wrapper_delay' = Min(wrapper_delay * 2, retry_policy.max_delay)
    /\ UNCHANGED retry_policy
    /\ UNCHANGED outsideRetry

RetryNext ==
    \/ AttemptReturns
    \/ AttemptRaises

RetrySpec == RetryInit /\ [][RetryNext]_vars

(***************************************************************************)
(* memory/context_manager.py: ContextManager.  Python dicts are sets of    *)
(* <<key, value>> with one pair for a key.                                 *)
(***************************************************************************)
Keys(d) == {p[1] : p \in d}

\* d[k], for k in d
Lookup(d, k) == (CHOOSE p \in d : p[1] = k)[2]

\* d.get(k, default)
GetOr(d, k, default) == IF k \in Keys(d) THEN Lookup(d, k) ELSE default

\* d[k] = v
Store(d, k, v) == {p \in d : p[1] # k} \cup {<<k, v>>}

\* faulty variant of DictUpdate: the new state replaces the old one
DictReplace(d, e) == e

\* d.update(e)
DictUpdate(d, e) == {p \in d : p[1] \notin Keys(e)} \cup e

\* s[start:] of a list
SliceFrom(s, start) ==
    LET from == IF start < 0 THEN (IF Len(s) + start < 0 THEN 0 ELSE Len(s) + start)
                ELSE Min(start, Len(s))
    IN  SubSeq(s, from + 1, Len(s))

\* lines 12-18
ChapterSummary(chapter_id, title, summary, word_count) ==
    [chapter_id |-> chapter_id, title |-> title, summary |-> summary,
     word_count |-> word_count]

\* most chapters added to a ContextManager
MaxChapters == 3

\* most calls of update_character_state
MaxUpdates == 2

\* largest max_summaries a ContextManager is built with
MaxSummariesBound == 2

\* the summary the pipeline adds for chapter i
SummaryOf(i) == ChapterSummary(i, <<"title", i>>, <<"summary", i>>, 100 * i)

Characters == {"Hero", "c1"}

\* the states given to update_character_state
CharacterStates == {{<<"hp", 100>>}, {<<"hp", 1>>, <<"mp", 50>>}}

\* the dicts given to set_settings
SettingsValues == {{<<"a", 1>>}, {}}

\* the paths given to save_to_file and load_from_file
Paths == {"test_context.json", "output/context.json"}

\* os.path.dirname
DirName(path) == IF path = "output/context.json" THEN "output" ELSE ""

\* lines 31-41: a ContextManager is constructed
CMInit ==
    /\ WriterIdle
    /\ rubric = EmptyRubric
    /\ JudgeIdle
    /\ RetryIdle
    /\ StoreIdle
    /\ files = {}
    /\ max_summaries \in 0..MaxSummariesBound
    /\ summaries = <<>>
    /\ settings = {}
    /\ character_states = {}
    /\ cm_pc = "ready"
    /\ cm_filepath = ""
    /\ new_cm = NewContextManager(DefaultMaxSummaries)
    /\ added = <<>>
    /\ updates = <<>>

\* lines 62-65
_compress_old_summaries(list, m) == SliceFrom(list, -m)

\* lines 43-60, for the next chapter
cm_add_chapter_summary ==
    /\ cm_pc = "ready"
    /\ Len(added) < MaxChapters
    /\ LET s == SummaryOf(Len(added) + 1)
           appended == Append(summaries, s)
       IN  /\ summaries' = IF Len(appended) > max_summaries
                            THEN _compress_old_summaries(appended, max_summaries)
                            ELSE appended
           /\ added' = Append(added, s)
    /\ UNCHANGED <<max_summaries, settings, character_states, cm_pc, cm_filepath,
                   new_cm, updates, files, outsideCM>>

\* lines 83-85
cm_set_settings ==
    /\ cm_pc = "ready"
    /\ \E v \in SettingsValues : settings' = v
    /\ UNCHANGED <<max_summaries, summaries, character_states, cm_pc, cm_filepath,
                   new_cm, added, updates, files, outsideCM>>

\* lines 91-95
cm_update_character_state ==
    /\ cm_pc = "ready"
    /\ Len(updates) < MaxUpdates
    /\ \E character \in Characters, state \in CharacterStates :
          /\ LET present == IF character \notin Keys(character_states)
                            THEN Store(character_states, character, {})
                            ELSE character_states
             IN  character_states' =
                     Store(present, character,
                           DictUpdate(Lookup(present, character), state))
          /\ updates' = Append(updates, [character |-> character, state |-> state])
    /\ UNCHANGED <<max_summaries, summaries, settings, cm_pc, cm_filepath, new_cm,
                   added, files, outsideCM>>

\* lines 97-99
get_character_state(character) == GetOr(character_states, character, {})

RECURSIVE WordCountSum(_)
\* sum(s.word_count for s in list)
WordCountSum(list) ==
    IF list = <<>> THEN 0 ELSE Head(list).word_count + WordCountSum(Tail(list))

\* lines 135-137
get_total_word_count == WordCountSum(summaries)

\* lines 103-115: the data save_to_file dumps
ContextData ==
    {<<"summaries", [i \in 1..Len(summaries) |->
                        {<<"chapter_id", summaries[i].chapter_id>>,
                         <<"title", summaries[i].title>>,
                         <<"summary", summaries[i].summary>>,
                         <<"word_count", summaries[i].word_count>>}]>>,
     <<"settings", settings>>,
     <<"character_states", character_states>>}

\* lines 101-119: os.makedirs raises FileNotFoundError for the directory
\* name '', else the file is written
cm_save_to_file ==
    /\ cm_pc = "ready"
    /\ \E filepath \in Paths :
          /\ cm_filepath' = filepath
          /\ IF DirName(filepath) = ""
             THEN cm_pc' = "raised" /\ files' = files
             ELSE cm_pc' = "saved" /\ files' = Store(files, filepath, ContextData)
    /\ UNCHANGED <<max_summaries, summaries, settings, character_states, new_cm,
                   added, updates, outsideCM>>

\* ChapterSummary(**s)
SummaryFromData(d) ==
    ChapterSummary(Lookup(d, "chapter_id"), Lookup(d, "title"), Lookup(d, "summary"),
                   GetOr(d, "word_count", 0))

\* lines 121-133: new_cm.load_from_file(filepath)
cm_load_from_file ==
    /\ cm_pc = "saved"
    /\ cm_pc' = "loaded"
    /\ IF cm_filepath \notin Keys(files)
       THEN new_cm' = new_cm
       ELSE LET data == Lookup(files, cm_filepath)
                list == GetOr(data, "summaries", <<>>)
            IN  new_cm' =
                    [new_cm EXCEPT
                       !.summaries = [i \in 1..Len(list) |-> SummaryFromData(list[i])],
                       !.settings = GetOr(data, "settings", {}),
                       !.character_states = GetOr(data, "character_states", {})]
    /\ UNCHANGED <<max_summaries, summaries, settings, character_states, cm_filepath,
                   added, updates, files, outsideCM>>

CMNext ==
    \/ cm_add_chapter_summary
    \/ cm_set_settings
    \/ cm_update_character_state
    \/ cm_save_to_file
    \/ cm_load_from_file

CMSpec == CMInit /\ [][CMNext]_vars

(***************************************************************************)
(* memory/settings_store.py: SettingsStore.  None is <<>> and a value v    *)
(* of an Optional field is <<v>>.                                          *)
(***************************************************************************)
\* lines 12-22, as add_character fills it
CharacterProfile(name, description, current_state) ==
    [name |-> name, aliases |-> <<>>, description |-> description, traits |-> <<>>,
     abilities |-> <<>>, relationships |-> {}, current_state |-> current_state,
     first_appearance |-> 0]

\* lines 25-34
PlotPoint(id, type, description, introduced_chapter, resolved_chapter, is_resolved) ==
    [id |-> id, type |-> type, description |-> description,
     introduced_chapter |-> introduced_chapter, resolved_chapter |-> resolved_chapter,
     is_resolved |-> is_resolved, related_characters |-> <<>>]

\* lines 37-44
TimelineEvent(id, timestamp, chapter_id, description) ==
    [id |-> id, timestamp |-> timestamp, chapter_id |-> chapter_id,
     description |-> description, characters_involved |-> <<>>]

\* most plot points added to a store before it is saved
MaxPlotPoints == 2

\* most timeline events added to a store before it is saved
MaxEvents == 1

\* the chapters given to resolve_plot_point
ResolveChapters == {2, 3}

\* a key of the world_settings dict: a str, or an int shown by its digits
StrKey(text) == [is_str |-> TRUE, text |-> text]
IntKey(digits) == [is_str |-> FALSE, text |-> digits]

\* the dicts given to set_world_settings: the one of test_memory.py, and one
\* with an integer key, as yaml.safe_load makes of the line  2077: 1
WorldSettingsValues == {{<<StrKey("a"), 1>>}, {<<IntKey("2077"), 1>>}}

\* json.dump writes a key that is not a str as its str, and json.load
\* reads every key as a str
JsonKey(key) == StrKey(key.text)

\* a dict after json.dump and json.load (no two keys of d have the same text)
JsonObject(d) == {<<JsonKey(pair[1]), pair[2]>> : pair \in d}

\* the paths given to SettingsStore.save_to_file
StorePaths == {"test_settings.json", "output/settings.json"}

\* os.path.dirname(filepath) if os.path.dirname(filepath) else '.'
StoreDirName(path) == IF path = "output/settings.json" THEN "output" ELSE "."

\* lines 146-163: the store after add_plot_point("PP")
add_plot_point(st) ==
    LET counter == st._plot_id_counter + 1
    IN  [st EXCEPT
           !._plot_id_counter = counter,
           !.plot_points = Append(@, PlotPoint(counter, "foreshadowing", "PP", 0, <<>>,
                                               FALSE))]

\* faulty variant of PointMatches: the first point is taken
PointMatchesAny(point, plot_id) == TRUE

\* line 168
PointMatches(point, plot_id) == point.id = plot_id

\* lines 165-171: the store after resolve_plot_point(plot_id, resolved_chapter)
resolve_plot_point(st, plot_id, resolved_chapter) ==
    LET hits == {i \in 1..Len(st.plot_points) : PointMatches(st.plot_points[i], plot_id)}
    IN  IF hits = {} THEN st
        ELSE LET first == CHOOSE i \in hits : \A j \in hits : i <= j
             IN  [st EXCEPT !.plot_points[first].is_resolved = TRUE,
                            !.plot_points[first].resolved_chapter = <<resolved_chapter>>]

\* lines 173-175
get_unresolved_plot_points(st) ==
    LET RECURSIVE Unresolved(_)
        Unresolved(list) ==
            IF list = <<>> THEN <<>>
            ELSE (IF ~Head(list).is_resolved THEN <<Head(list)>> ELSE <<>>)
                     \o Unresolved(Tail(list))
    IN  Unresolved(st.plot_points)

\* lines 186-203: the store after add_timeline_event("T1", 1, "E1")
add_timeline_event(st) ==
    LET counter == st._timeline_id_counter + 1
    IN  [st EXCEPT
           !._timeline_id_counter = counter,
           !.timeline = Append(@, TimelineEvent(counter, "T1", 1, "E1"))]

\* lines 58-65: a SettingsStore is constructed
StoreInit ==
    /\ WriterIdle
    /\ rubric = EmptyRubric
    /\ JudgeIdle
    /\ RetryIdle
    /\ CMIdle
    /\ files = {}
    /\ store = NewSettingsStore
    /\ new_store = NewSettingsStore
    /\ store_pc = "ready"
    /\ store_filepath = ""
    /\ resolved_with = {}
    /\ resolve_calls = {}

\* lines 69-71
store_set_world_settings ==
    /\ store_pc = "ready"
    /\ \E settings_arg \in WorldSettingsValues :
          store' = [store EXCEPT !.world_settings = settings_arg]
    /\ UNCHANGED <<new_store, store_pc, store_filepath, resolved_with, resolve_calls, files,
                   outsideStore>>

\* lines 73-75: update_world_settings("year", 2077)
store_update_world_settings ==
    /\ store_pc = "ready"
    /\ store' = [store EXCEPT !.world_settings = Store(@, StrKey("year"), 2077)]
    /\ UNCHANGED <<new_store, store_pc, store_filepath, resolved_with, resolve_calls, files,
                   outsideStore>>

\* lines 83-100: add_character("C", "Desc")
store_add_character ==
    /\ store_pc = "ready"
    /\ store' = [store EXCEPT
                    !.characters = Store(@, "C", CharacterProfile("C", "Desc", ""))]
    /\ UNCHANGED <<new_store, store_pc, store_filepath, resolved_with, resolve_calls, files,
                   outsideStore>>

\* lines 115-119: update_character_state("C", "injured")
store_update_character_state ==
    /\ store_pc = "ready"
    /\ store' =
          IF "C" \in Keys(store.characters)
          THEN [store EXCEPT
                  !.characters =
                      Store(@, "C", [Lookup(@, "C") EXCEPT !.current_state = "injured"])]
          ELSE store
    /\ UNCHANGED <<new_store, store_pc, store_filepath, resolved_with, resolve_calls, files,
                   outsideStore>>

\* lines 146-163
store_add_plot_point ==
    /\ store_pc = "ready"
    /\ Len(store.plot_points) < MaxPlotPoints
    /\ store' = add_plot_point(store)
    /\ UNCHANGED <<new_store, store_pc, store_filepath, resolved_with, resolve_calls, files,
                   outsideStore>>

\* lines 165-171
store_resolve_plot_point ==
    /\ store_pc = "ready"
    /\ \E plot_id \in 0..(MaxPlotPoints + 1), resolved_chapter \in ResolveChapters :
          /\ store' = resolve_plot_point(store, plot_id, resolved_chapter)
          /\ resolved_with' =
                 IF \E i \in 1..Len(store.plot_points) : store.plot_points[i].id = plot_id
                 THEN Store(resolved_with, plot_id, resolved_chapter)
                 ELSE resolved_with
          /\ resolve_calls' = resolve_calls \cup {plot_id}
    /\ UNCHANGED <<new_store, store_pc, store_filepath, files, outsideStore>>

\* lines 186-203
store_add_timeline_event ==
    /\ store_pc = "ready"
    /\ Len(store.timeline) < MaxEvents
    /\ store' = add_timeline_event(store)
    /\ UNCHANGED <<new_store, store_pc, store_filepath, resolved_with, resolve_calls, files,
                   outsideStore>>

\* lines 266-305: the data save_to_file dumps
StoreData(st) ==
    {<<"world_settings", JsonObject(st.world_settings)>>,
     <<"characters",
       {<<name, LET char == Lookup(st.characters, name)
                IN  {<<"name", char.name>>, <<"aliases", char.aliases>>,
                     <<"description", char.description>>, <<"traits", char.traits>>,
                     <<"abilities", char.abilities>>,
                     <<"relationships", char.relationships>>,
                     <<"current_state", char.current_state>>,
                     <<"first_appearance", char.first_appearance>>}>> :
           name \in Keys(st.characters)}>>,
     <<"plot_points",
       [i \in 1..Len(st.plot_points) |->
           LET p == st.plot_points[i]
           IN  {<<"id", p.id>>, <<"type", p.type>>, <<"description", p.description>>,
                <<"introduced_chapter", p.introduced_chapter>>,
                <<"resolved_chapter", p.resolved_chapter>>,
                <<"is_resolved", p.is_resolved>>,
                <<"related_characters", p.related_characters>>}]>>,
     <<"timeline",
       [i \in 1..Len(st.timeline) |->
           LET e == st.timeline[i]
           IN  {<<"id", e.id>>, <<"timestamp", e.timestamp>>,
                <<"chapter_id", e.chapter_id>>, <<"description", e.description>>,
                <<"characters_involved", e.characters_involved>>}]>>,
     <<"plot_id_counter", st._plot_id_counter>>,
     <<"timeline_id_counter", st._timeline_id_counter>>}

\* lines 264-309: os.makedirs gets StoreDirName(filepath), never ''
store_save_to_file ==
    /\ store_pc = "ready"
    /\ \E filepath \in StorePaths :
          /\ StoreDirName(filepath) # ""
          /\ store_filepath' = filepath
          /\ store_pc' = "saved"
          /\ files' = Store(files, filepath, StoreData(store))
    /\ UNCHANGED <<store, new_store, resolved_with, resolve_calls, outsideStore>>

\* CharacterProfile(**char_data)
ProfileFromData(d) ==
    [name |-> Lookup(d, "name"), aliases |-> GetOr(d, "aliases", <<>>),
     description |-> GetOr(d, "description", ""), traits |-> GetOr(d, "traits", <<>>),
     abilities |-> GetOr(d, "abilities", <<>>),
     relationships |-> GetOr(d, "relationships", {}),
     current_state |-> GetOr(d, "current_state", ""),
     first_appearance |-> GetOr(d, "first_appearance", 0)]

\* PlotPoint(**p)
PlotPointFromData(d) ==
    [id |-> Lookup(d, "id"), type |-> Lookup(d, "type"),
     description |-> Lookup(d, "description"),
     introduced_chapter |-> Lookup(d, "introduced_chapter"),
     resolved_chapter |-> GetOr(d, "resolved_chapter", <<>>),
     is_resolved |-> GetOr(d, "is_resolved", FALSE),
     related_characters |-> GetOr(d, "related_characters", <<>>)]

\* TimelineEvent(**e)
EventFromData(d) ==
    [id |-> Lookup(d, "id"), timestamp |-> Lookup(d, "timestamp"),
     chapter_id |-> Lookup(d, "chapter_id"), description |-> Lookup(d, "description"),
     characters_involved |-> GetOr(d, "characters_involved", <<>>)]

\* lines 311-334: new_store.load_from_file(filepath)
store_load_from_file ==
    /\ store_pc = "saved"
    /\ store_pc' = "loaded"
    /\ IF store_filepath \notin Keys(files)
       THEN new_store' = new_store
       ELSE LET data == Lookup(files, store_filepath)
                chars == GetOr(data, "characters", {})
                points == GetOr(data, "plot_points", <<>>)
                events == GetOr(data, "timeline", <<>>)
            IN  new_store' =
                    [world_settings |-> GetOr(data, "world_settings", {}),
                     characters |->
                         {<<name, ProfileFromData(Lookup(chars, name))>> :
                             name \in Keys(chars)},
                     plot_points |->
                         [i \in 1..Len(points) |-> PlotPointFromData(points[i])],
                     timeline |-> [i \in 1..Len(events) |-> EventFromData(events[i])],
                     _plot_id_counter |-> GetOr(data, "plot_id_counter", 0),
                     _timeline_id_counter |-> GetOr(data, "timeline_id_counter", 0)]
    /\ UNCHANGED <<store, store_filepath, resolved_with, resolve_calls, files, outsideStore>>

\* lines 146-163, on the store that was loaded
new_store_add_plot_point ==
    /\ store_pc = "loaded"
    /\ Len(new_store.plot_points) <= Len(store.plot_points)
    /\ new_store' = add_plot_point(new_store)
    /\ UNCHANGED <<store, store_pc, store_filepath, resolved_with, resolve_calls, files, outsideStore>>

\* lines 186-203, on the store that was loaded
new_store_add_timeline_event ==
    /\ store_pc = "loaded"
    /\ Len(new_store.timeline) <= Len(store.timeline)
    /\ new_store' = add_timeline_event(new_store)
    /\ UNCHANGED <<store, store_pc, store_filepath, resolved_with, resolve_calls, files, outsideStore>>

StoreNext ==
    \/ store_set_world_settings
    \/ store_update_world_settings
    \/ store_add_character
    \/ store_update_character_state
    \/ store_add_plot_point
    \/ store_resolve_plot_point
    \/ store_add_timeline_event
    \/ store_save_to_file
    \/ store_load_from_file
    \/ new_store_add_plot_point
    \/ new_store_add_timeline_event

StoreSpec == StoreInit /\ [][StoreNext]_vars

(***************************************************************************)
(* One judge (one DramaEvaluator) asked about the same payload in each     *)
(* form of reply.                                                          *)
(***************************************************************************)
JudgeInit ==
    /\ mode = "drama"
    /\ max_retries = 0
    /\ target_words = 0
    /\ rubric \in Rubrics
    /\ target_score = RubricTargetScore(rubric)
    /\ pc = "idle"
    /\ retries = 0
    /\ current_feedback_directive = <<>>
    /\ final_content = <<>>
    /\ branches = <<>>
    /\ evaluated_branches = <<>>
    /\ genPending = {}
    /\ evalPending = {}
    /\ accumulated_content = <<>>
    /\ current_words = 0
    /\ continuation_retries = 0
    /\ rounds = 0
    /\ selected = NoBranch
    /\ selectedRound = 0
    /\ accepted = FALSE
    /\ genReturned = {}
    /\ evalReturned = {}
    /\ contCalls = 0
    /\ TraceIdle
    /\ \E c \in JudgeCases :
          /\ jkind = c.kind
          /\ jconforms = c.conforms
          /\ jscored = c.scored
          /\ jreplies = c.replies
    /\ jout = [f \in Forms |-> NotCalled]
    /\ cancel_requested = FALSE
    /\ OthersIdle

\* lines 35-83: evaluate_section, the model having answered in form f
Judge(f) ==
    /\ jout[f] = NotCalled
    /\ jout' = [jout EXCEPT ![f] = evaluate_section(jreplies[f], target_score)]
    /\ UNCHANGED <<writerVars, target_score, rubric, jkind, jconforms, jscored,
                   jreplies, cancel_requested, otherVars>>

JudgeNext == \E f \in Forms : Judge(f)

JudgeSpec == JudgeInit /\ [][JudgeNext]_vars

(***************************************************************************)
(* Properties                                                              *)
(***************************************************************************)
IdsOf(seq) == {seq[i].id : i \in 1..Len(seq)}

\* a round has been decided: the thread is back at the loop test or past the loop
RoundDecided == mode = "drama" /\ pc \in {"loop", "expand"} /\ evalReturned # {}

C2_SelectsMaximum ==
    RoundDecided =>
        /\ selectedRound = rounds
        /\ \E i \in 1..Len(evaluated_branches) : evaluated_branches[i] = selected
        /\ \A i \in 1..Len(evaluated_branches) :
              ~FloatLT(selected.score, evaluated_branches[i].score)

\* C3: among the scored branches of a decided round that share the highest
\* score, the selected one has the lowest branch id.
C3_TieToLowestId ==
    RoundDecided =>
        \A i \in 1..Len(evaluated_branches) :
            evaluated_branches[i].score = selected.score =>
                selected.id <= evaluated_branches[i].id

C5_LengthMonotone ==
    [][pc = "cont" =>
          /\ current_words' >= current_words
          /\ count_words(accumulated_content') >= count_words(accumulated_content)]_vars

C5_Witness ==
    /\ pc = "cont"
    /\ continuation_retries >= 2
    /\ current_words > count_words(final_content)
    /\ current_words < target_words

\* C6: a round collects exactly the branches whose generation returned and
\* scores exactly those whose evaluation returned, whatever raised beside them;
\* a decided round that scored a branch has selected one of the scored ones.
C6_Isolation ==
    /\ IdsOf(branches) = genReturned
    /\ IdsOf(evaluated_branches) = evalReturned
    /\ evalReturned \subseteq genReturned
    /\ RoundDecided => selected.id \in evalReturned

C6_Witness ==
    /\ RoundDecided
    /\ Cardinality(genReturned) = DramaBranches - 1
    /\ Cardinality(evalReturned) = 1
    /\ selected.id \in evalReturned

\* C7: for one judge and one object, the replies in raw, fenced and embedded
\* form give the same outcome, and a result when the object follows the schema.
C7_FormsAgree ==
    jkind = "object" =>
        \A f \in Forms, g \in Forms :
            (jout[f] # NotCalled /\ jout[g] # NotCalled) =>
                /\ jout[f] = jout[g]
                /\ jconforms => jout[f].exc = ""

C7_Witness ==
    /\ jkind = "object"
    /\ \A f \in Forms : jout[f] # NotCalled
    /\ jout["embedded"].exc = ""
    /\ jout["embedded"].score = Num(95)
    /\ jout["embedded"].passed
    /\ Len(jout["embedded"].feedback) > 1

\* C8: evaluate_section returns for every reply, and returns score 0 and
\* passed = false when the reply is no object with a score.
C8_NeverRaises ==
    \A f \in Forms :
        jout[f] # NotCalled =>
            /\ jout[f].exc = ""
            /\ ~jscored => (jout[f].score = Num(0) /\ ~jout[f].passed)

\* C9: a selected branch that passed is accepted at once: its content is the
\* text carried on, and no round is begun and no worker left after it.
C9_AcceptEndsSelection ==
    /\ selected.passed => accepted
    /\ accepted =>
          /\ pc \in {"expand", "cont", "done", "raised"}
          /\ rounds = selectedRound
          /\ genPending = {} /\ evalPending = {}
          /\ pc = "expand" => (selected.passed /\ final_content = selected.content)

C9_Witness ==
    /\ accepted
    /\ pc = "done"
    /\ max_retries = 1
    /\ rounds = 1
    /\ final_content # <<>>

\* C10: a decided drama round in which a scored branch passed has selected a
\* passing branch and is accepted in that round.
C10_PassingBranchWins ==
    (RoundDecided /\ \E i \in 1..Len(evaluated_branches) : evaluated_branches[i].passed) =>
        /\ selected.passed
        /\ FloatGE(selected.score, Num(target_score))
        /\ accepted
        /\ pc = "expand"
        /\ selectedRound = rounds
        /\ final_content = selected.content

\* the cap was reached in drama mode without an accepted branch
CapReached == pc = "expand" /\ mode = "drama" /\ max_retries >= 0 /\ ~accepted

\* C11: when the cap is reached without an accepted branch and some round of
\* the invocation scored a branch, the text carried forward is the text of a
\* branch generated in the invocation, not a placeholder message.
C11_LeastBadText ==
    (CapReached /\ selectedRound >= 1) => final_content \in BranchTexts

\* C12: a round that follows a failed round is given a directive that is not
\* the empty text.
C12_DirectiveNonEmpty ==
    /\ (rounds >= 2 /\ pc \in {"gen", "eval"}) => current_feedback_directive # <<>>
    /\ (rounds >= 1 /\ pc = "loop") => current_feedback_directive # <<>>

C12_Witness ==
    /\ pc = "gen"
    /\ rounds = 2
    /\ Len(current_feedback_directive) = DramaBranches
    /\ genReturned # {}

\* C13: in drama mode the text that leaves a round which generated branches is
\* the text of a branch whose evaluation returned in that round.
C13_OnlyScoredAdopted ==
    (mode = "drama" /\ pc = "expand" /\ genReturned # {}) =>
        /\ evalReturned # {}
        /\ selected.id \in evalReturned
        /\ final_content = selected.content

\* C14: no branch collected in a round has an empty text, and an empty text
\* never leaves the selection phase of a run that entered the loop.
C14_EmptyDropped ==
    /\ \A i \in 1..Len(branches) : branches[i].content # <<>>
    /\ (pc = "expand" /\ max_retries >= 0) => final_content # <<>>

\* C15: the step that follows a round whose generation calls all failed counts
\* one retry, starts no evaluation, and goes back to the loop test or, at the
\* cap, on to the continuation phase; it does not raise.
C15_AllFailedRound ==
    [][(pc = "gen" /\ genPending = {} /\ branches = <<>>) =>
          /\ retries' = retries + 1
          /\ evalPending' = {} /\ evaluated_branches' = <<>>
          /\ pc' = (IF retries' <= max_retries THEN "loop" ELSE "expand")]_vars

C15_Witness ==
    /\ pc = "loop"
    /\ mode = "drama"
    /\ rounds = 1 /\ retries = 1
    /\ genReturned = {} /\ evalReturned = {}
    /\ current_feedback_directive = GenerationFailedDirective

\* C16: write_section that entered the loop never ends by raising.
C16_NeverPropagates == max_retries >= 0 => pc # "raised"

\* C17: with a positive target, write_section that entered the loop does not
\* return a section with empty content and word_count 0.
C17_NoSilentEmpty ==
    (pc = "done" /\ max_retries >= 0 /\ target_words > 0) =>
        (Returned.content # <<>> /\ Returned.word_count > 0)

\* C18: the returned value carries an accepted flag that tells whether a
\* selected branch passed the gate, and an evaluation trail with one result
\* for every round.
C18_AcceptedReported ==
    pc = "done" =>
        /\ "accepted" \in DOMAIN Returned
        /\ "evaluation_trail" \in DOMAIN Returned
        /\ Returned.accepted = accepted
        /\ Len(Returned.evaluation_trail) = rounds

\* C19: a continuation call is issued only in a state whose current length is
\* below the target; when the selected text already reaches the target, the
\* loop is left with no call made and the selected text as the content.
C19_OnlyWhileShort ==
    [][/\ contCalls' # contCalls => current_words < target_words
       /\ (pc = "cont" /\ count_words(final_content) >= target_words) =>
              /\ contCalls' = 0
              /\ pc' = "done"
              /\ accumulated_content' = final_content]_vars

C19_Witness ==
    /\ pc = "done"
    /\ max_retries >= 0 /\ target_words > 0
    /\ final_content \in BranchTexts
    /\ count_words(final_content) >= target_words
    /\ contCalls = 0
    /\ Returned.content = final_content

C21_ThreeAttempts ==
    retry_policy = DefaultPolicy =>
        /\ attempts <= 3
        /\ wrapper_pc = "raised" => attempts = 3
        /\ wrapper_pc = "returned" => attempts = wrapper_retries + 1

\* C22: once cancellation is requested, write_section begins no round and
\* issues no continuation call, and it does not end by raising.
C22_CancelStops ==
    [][cancel_requested =>
          /\ rounds' = rounds
          /\ contCalls' = contCalls
          /\ pc' # "raised"]_vars

\* C23: the threshold is the rubric's target_pass_score, or 90 when the rubric
\* has none, and a result for a reply that has a score is passed exactly when
\* its score is at least the threshold.
C23_PassedIffThreshold ==
    /\ target_score = (IF "target_pass_score" \in DOMAIN rubric
                       THEN rubric.target_pass_score ELSE 90)
    /\ \A f \in Forms :
          (jout[f] # NotCalled /\ jout[f].exc = "" /\ jscored) =>
              (jout[f].passed <=> FloatGE(jout[f].score, Num(target_score)))

C23_Witness ==
    /\ rubric = EmptyRubric
    /\ jscored
    /\ \E f \in Forms :
          jout[f].exc = "" /\ jout[f].score = Num(90) /\ jout[f].passed
    /\ \E f \in Forms : jout[f] = NotCalled

\* C24: a result for a reply whose score is a number has a score between 0
\* and 100.
C24_ScoreInRange ==
    \A f \in Forms :
        (jout[f] # NotCalled /\ jout[f].exc = "" /\ jout[f].score.t = "num") =>
            (jout[f].score.n >= 0 /\ jout[f].score.n <= 100)

\* C25: the manager holds at most max_summaries summaries, and they are the
\* most recently added ones in the order they were added.
C25_KeepsMostRecent ==
    cm_pc = "ready" =>
        /\ Len(summaries) <= max_summaries
        /\ summaries = SubSeq(added, Len(added) - Min(max_summaries, Len(added)) + 1,
                              Len(added))

\* C26: save_to_file(path) does not raise, and the fresh manager that loaded
\* the same path has the summaries, settings and character states that were saved.
C26_ContextRoundTrip ==
    /\ cm_pc # "raised"
    /\ cm_pc = "loaded" =>
          /\ new_cm.summaries = summaries
          /\ new_cm.settings = settings
          /\ new_cm.character_states = character_states

\* the plot points of a SettingsStore have pairwise distinct ids
DistinctIds(list) ==
    \A i, j \in 1..Len(list) : i # j => list[i].id # list[j].id

\* list begins with the elements of prefix
StartsWith(list, prefix) ==
    /\ Len(prefix) <= Len(list)
    /\ SubSeq(list, 1, Len(prefix)) = prefix

\* C27: after save_to_file and load_from_file on a fresh SettingsStore, the fresh
\* store has the world settings, characters, plot points (with their resolved
\* status), timeline events and both id counters of the saved store, and every
\* plot point and timeline event added to it afterwards has an id that no
\* loaded one has.
C27_SettingsRoundTrip ==
    store_pc = "loaded" =>
        /\ new_store.world_settings = store.world_settings
        /\ new_store.characters = store.characters
        /\ StartsWith(new_store.plot_points, store.plot_points)
        /\ StartsWith(new_store.timeline, store.timeline)
        /\ new_store._plot_id_counter - store._plot_id_counter
               = Len(new_store.plot_points) - Len(store.plot_points)
        /\ new_store._timeline_id_counter - store._timeline_id_counter
               = Len(new_store.timeline) - Len(store.timeline)
        /\ DistinctIds(new_store.plot_points)
        /\ DistinctIds(new_store.timeline)

\* the point that add_plot_point made with this id, before any resolve
AsAdded(id) == PlotPoint(id, "foreshadowing", "PP", 0, <<>>, FALSE)

\* the points of list whose id is in kept, in order
RECURSIVE SelectPoints(_, _)
SelectPoints(list, kept) ==
    IF list = <<>> THEN <<>>
    ELSE (IF Head(list).id \in kept THEN <<Head(list)>> ELSE <<>>)
             \o SelectPoints(Tail(list), kept)

\* the ids of the plot points of the store
PointIds == {store.plot_points[i].id : i \in 1..Len(store.plot_points)}

\* C28 as stated: get_unresolved_plot_points returns exactly the points whose
\* id was never given to resolve_plot_point.
C28_NeverPassed ==
    store_pc = "ready" =>
        get_unresolved_plot_points(store)
            = SelectPoints(store.plot_points, PointIds \ resolve_calls)

\* C28: after any sequence of add_plot_point and resolve_plot_point calls, the
\* ids of the plot points are pairwise distinct; get_unresolved_plot_points
\* returns exactly the points whose id was not given to resolve_plot_point
\* since they were added; a point named by a call is resolved with the chapter
\* of the last such call and is otherwise as it was added; every other point is
\* as it was added, so a call with an id that no point has changes nothing.
C28_ResolveFrame ==
    store_pc = "ready" =>
        /\ DistinctIds(store.plot_points)
        /\ get_unresolved_plot_points(store)
               = SelectPoints(store.plot_points, PointIds \ Keys(resolved_with))
        /\ \A i \in 1..Len(store.plot_points) :
              LET point == store.plot_points[i]
              IN  IF point.id \in Keys(resolved_with)
                  THEN point = [AsAdded(point.id) EXCEPT
                                  !.is_resolved = TRUE,
                                  !.resolved_chapter = <<Lookup(resolved_with, point.id)>>]
                  ELSE point = AsAdded(point.id)

\* two points were added, only the second was resolved, with chapter 3, and a
\* call was made with an id that no point has
C28_Witness ==
    /\ store_pc = "ready"
    /\ Len(store.plot_points) = 2
    /\ Keys(resolved_with) = {2}
    /\ 0 \in resolve_calls
    /\ store.plot_points[2].resolved_chapter = <<3>>
    /\ Len(get_unresolved_plot_points(store)) = 1

\* C29: get_total_word_count is the sum of the word_count of every summary
\* ever added.
C29_TotalOfAllAdded ==
    cm_pc = "ready" => get_total_word_count = WordCountSum(added)

\* the calls of update_character_state for character c that set key k
UpdatesOf(c, k) ==
    {i \in 1..Len(updates) :
        updates[i].character = c /\ k \in Keys(updates[i].state)}

\* C30: the state read for a character has exactly the keys that the updates
\* for that character set, each with the value of the latest update that set it;
\* a character never updated reads as the empty state.
C30_UpdateMerges ==
    cm_pc = "ready" =>
        \A c \in Characters :
            LET ks == {k \in {"hp", "mp"} : UpdatesOf(c, k) # {}}
                last(k) == CHOOSE i \in UpdatesOf(c, k) : \A j \in UpdatesOf(c, k) : j <= i
            IN  get_character_state(c) =
                    {<<k, Lookup(updates[last(k)].state, k)>> : k \in ks}

C30_Witness ==
    /\ cm_pc = "ready"
    /\ updates = <<[character |-> "Hero", state |-> {<<"hp", 1>>, <<"mp", 50>>}],
                   [character |-> "Hero", state |-> {<<"hp", 100>>}]>>
    /\ get_character_state("Hero") = {<<"hp", 100>>, <<"mp", 50>>}
    /\ get_character_state("c1") = {}

\* C31: evaluation workers run only when every generation worker of the round
\* has finished; a selection is made only when every evaluation worker of the
\* round has finished; and every branch that is evaluated, selected or put in
\* the directive of round r was generated in round r.
C31_RoundBarrier ==
    /\ evalPending # {} => pc = "eval"
    /\ pc = "eval" => genPending = {}
    /\ selected # NoBranch => evalPending = {} /\ genPending = {} /\ selected.round = rounds
    /\ \A i \in 1..Len(branches) : branches[i].round = rounds
    /\ \A i \in 1..Len(evaluated_branches) : evaluated_branches[i].round = rounds
    /\ pc = "eval" => \A j \in evalPending : j \in 1..Len(branches)

\* the second round of a drama run has selected among two or more branches
C31_Witness ==
    /\ mode = "drama"
    /\ rounds = 2
    /\ selected # NoBranch
    /\ selectedRound = 2
    /\ Len(evaluated_branches) >= 2

\* the branch of the round that has this id
BranchWithId(id) == CHOOSE b \in {branches[i] : i \in 1..Len(branches)} : b.id = id

\* C32: whatever the order in which the evaluation workers finish, every result
\* held for selection and for the directive has the content of the branch
\* whose text the judge read for that result, and so has the branch selected.
C32_PairingKept ==
    /\ \A i \in 1..Len(evaluated_branches) :
          LET e == evaluated_branches[i]
          IN  /\ e.judged = e.id
              /\ e.id \in IdsOf(branches)
              /\ e.content = BranchWithId(e.id).content
    /\ selected # NoBranch =>
          /\ selected.judged = selected.id
          /\ selected.content = BranchWithId(selected.id).content

\* the worker of the third branch was the first to finish, and its text is not
\* the text of the first branch
C32_Witness ==
    /\ pc = "eval"
    /\ Len(branches) = 3
    /\ Len(evaluated_branches) = 2
    /\ evaluated_branches[1].id = branches[3].id
    /\ branches[3].content # branches[1].content

\* the round just decided rejected every branch it evaluated
RoundRejected ==
    /\ mode = "drama"
    /\ pc \in {"loop", "expand"}
    /\ evaluated_branches # <<>>
    /\ \A i \in 1..Len(evaluated_branches) : ~evaluated_branches[i].passed

\* C33: after a round that rejected every branch it evaluated, the directive
\* has one line for each branch evaluated in that round and no other line, and
\* the line of a branch carries the score and the directive the judge gave for
\* that branch.
C33_OneEntryPerBranch ==
    RoundRejected =>
        /\ directiveRound = rounds
        /\ Len(current_feedback_directive) = Cardinality(evalReturned)
        /\ Len(current_feedback_directive) = Len(evaluated_branches)
        /\ \A i \in 1..Len(evaluated_branches) :
              /\ evaluated_branches[i].round = rounds
              /\ evaluated_branches[i].id \in evalReturned
              /\ current_feedback_directive[i].score = evaluated_branches[i].score
              /\ current_feedback_directive[i].directive
                     = evaluated_branches[i].directive
        /\ \A i, j \in 1..Len(evaluated_branches) :
              i # j => evaluated_branches[i].id # evaluated_branches[j].id

\* the second round generated three branches and rejected the two of them
\* whose evaluation returned
C33_Witness ==
    /\ RoundRejected
    /\ rounds = 2
    /\ Len(branches) = 3
    /\ Len(evaluated_branches) = 2
    /\ Len(current_feedback_directive) = 2

\* C34: the prompts of the first round hold no directive; the prompts of every
\* later round all hold the same directive, which is the one that the round
\* just before produced when it failed.
C34_DirectiveCarried ==
    pc \in {"gen", "eval"} =>
        /\ Len(genPrompts) = number_of_branches(mode)
        /\ \A i, j \in 1..Len(genPrompts) : genPrompts[i].directive = genPrompts[j].directive
        /\ rounds = 1 => \A i \in 1..Len(genPrompts) : genPrompts[i].directive = <<>>
        /\ rounds > 1 =>
              /\ directiveRound = rounds - 1
              /\ current_feedback_directive # <<>>
              /\ \A i \in 1..Len(genPrompts) :
                    genPrompts[i].directive = current_feedback_directive

\* the workers of a second round were given the two lines that the first round
\* made of the branches it rejected
C34_Witness ==
    /\ pc = "gen"
    /\ rounds = 2
    /\ Len(genPrompts) = 3
    /\ Len(genPrompts[3].directive) = 2
    /\ genPrompts[3].directive[1].directive = Str("plan")

\* text begins with the characters of prefix
HasPrefix(text, prefix) ==
    /\ Len(prefix) <= Len(text)
    /\ SubSeq(text, 1, Len(prefix)) = prefix

\* the calls of the continuation loop that ran with the closing instruction
FinalCalls == {i \in 1..Len(contModes) : contModes[i]}

\* C35: a continuation call carries the closing instruction exactly when the
\* target exceeds the words of the accumulated text by less than 500 or the
\* call is that of iteration max_continuations - 1; every other call carries
\* the instruction not to conclude.
C35_FinalChunkIff ==
    [][contCalls' = contCalls + 1 =>
          /\ Len(contModes') = contCalls'
          /\ contModes'[contCalls'] =
                 (\/ target_words - count_words(accumulated_content) < 500
                  \/ contCalls = max_continuations - 1)]_vars

\* the eighth call closed only because it was the last one allowed
C35_Witness ==
    /\ Len(contModes) = max_continuations
    /\ ~contModes[max_continuations - 1]
    /\ contModes[max_continuations]
    /\ target_words - current_words >= 500

\* C36: no continuation call is issued after a call that carried the closing
\* instruction, so that at most one call of a section carries it.
C36_OneClosingChunk == Cardinality(FinalCalls) <= 1

\* C37: within one continuation phase a call with the closing instruction is
\* never followed by a call without it, and when the phase ends at the cap of
\* iterations with the text still short, the last call carried the closing
\* instruction.
C37_FinalStaysFinal ==
    /\ \A i, j \in 1..Len(contModes) : (i < j /\ contModes[i]) => contModes[j]
    /\ (/\ pc = "done"
        /\ continuation_retries >= max_continuations
        /\ count_words(accumulated_content) < target_words) =>
           /\ Len(contModes) = max_continuations
           /\ contModes[Len(contModes)]

\* the phase ended at the cap with the text short, after calls without the
\* closing instruction and more than one call with it
C37_Witness ==
    /\ pc = "done"
    /\ Len(contModes) = max_continuations
    /\ current_words < target_words
    /\ ~contModes[1]
    /\ contModes[max_continuations - 1]
    /\ contModes[max_continuations]

\* C38: the continuation phase starts from the selected text, every iteration
\* leaves the text accumulated before it as a prefix of the text accumulated
\* after it, and the selected text is a prefix of the content returned.
C38_AppendOnly ==
    /\ [](pc \in {"cont", "done", "raised"} =>
             HasPrefix(accumulated_content, final_content))
    /\ [](pc = "done" => HasPrefix(Returned.content, final_content))
    /\ [][pc = "expand" => accumulated_content' = final_content]_vars
    /\ [][pc = "cont" => HasPrefix(accumulated_content', accumulated_content)]_vars

\* a section was returned whose content is the selected text of three words
\* and two chunks after it
C38_Witness ==
    /\ pc = "done"
    /\ count_words(final_content) = 3
    /\ contCalls >= 2
    /\ Len(accumulated_content) >= Len(final_content) + 8

\* C39: in relaxed mode a round has exactly one generation worker, whose prompt
\* has no divergence instruction, the judge is never asked, a round that ends
\* with no branch is the only kind that is followed by another round, and the
\* round that yields a branch ends the selection phase with that branch; in
\* drama mode a round has exactly 3 generation workers and the prompt of the
\* i-th carries the divergence instruction with branch number i.
C39_ModeFanOut ==
    /\ (mode # "drama" /\ pc \in {"gen", "eval"}) =>
          /\ Len(genPrompts) = 1
          /\ genPrompts[1].divergence = <<>>
          /\ genPending \cup genReturned \subseteq {0}
    /\ mode # "drama" =>
          /\ ~judgeCalled
          /\ pc # "eval"
          /\ evalPending = {}
          /\ pc = "loop" => branches = <<>>
          /\ (pc = "expand" /\ branches # <<>>) => final_content = branches[1].content
    /\ (mode = "drama" /\ pc \in {"gen", "eval"}) =>
          /\ Len(genPrompts) = 3
          /\ \A i \in 1..3 : genPrompts[i].divergence = <<i>>
          /\ genPending \cup genReturned \subseteq {0, 1, 2}

\* in relaxed mode the first round yielded nothing and the second round ended
\* the selection phase with the text its one worker returned
C39_Witness ==
    /\ mode = "novel"
    /\ rounds = 2
    /\ pc = "expand"
    /\ Len(branches) = 1
    /\ final_content = branches[1].content
    /\ final_content # <<>>

\* C40: once a continuation call has been issued, no generation worker and no
\* evaluation worker is pending and none is started again, so that the judge
\* reads no continued text; every step issues at most one continuation call,
\* and it is issued when every iteration before it has ended.
C40_PhasesInOrder ==
    /\ [](contCalls > 0 =>
             /\ pc \in {"cont", "done", "raised"}
             /\ genPending = {}
             /\ evalPending = {})
    /\ [][contCalls > 0 =>
             /\ rounds' = rounds
             /\ genReturned' = genReturned
             /\ evalReturned' = evalReturned
             /\ judgeCalled' = judgeCalled
             /\ genPending' = {}
             /\ evalPending' = {}]_vars
    /\ [][contCalls' # contCalls =>
             /\ contCalls' = contCalls + 1
             /\ continuation_retries = contCalls
             /\ pc = "cont"]_vars

\* a drama run asked the judge and then made two continuation calls
C40_Witness ==
    /\ mode = "drama"
    /\ judgeCalled
    /\ contCalls = 2
    /\ pc = "done"
====
